---- MODULE Spec2Model ----
(***************************************************************************)
(* Ping Thing client: the measurement loop (pingThing) and its two         *)
(* freshness watchers (watchBlockhash, watchSlotSent), run by one          *)
(* cooperative single-threaded scheduler.  An action is one synchronous    *)
(* run of code between two suspension points (await) of one loop.          *)
(*                                                                         *)
(* Absent values (null, undefined) are the empty tuple, a present value v  *)
(* is the one-element tuple <<v>>.                                         *)
(*                                                                         *)
(* Clock readings.  The code only ever subtracts a stored Date.now()       *)
(* reading from the current one, so a stored reading is kept as the number *)
(* of milliseconds that have passed since it was taken (0: taken at the    *)
(* current reading), saturating where the code's comparisons can no longer *)
(* tell its age.  The one reading the code writes as a literal, 0, is      *)
(* EPOCH; its distance from the current reading is Date.now() itself, kept *)
(* (saturating at Horizon) in sinceEpoch.                                  *)
(***************************************************************************)
EXTENDS Integers, Sequences, FiniteSets, TLC

\* ---------------------------------------------------------------- bounds
MaxTicks == 2          \* clock advances budgeted for one iteration of pingThing
MaxHash == 1           \* distinct blockhashes the cluster hands out
MaxSlot == 2           \* slots the feed and the cluster report
MaxReports == 1        \* payloads budgeted for one iteration of pingThing
MaxResends == 1        \* resends of one transaction
MaxCalls == 3          \* calls of appendToResultsCsv in one run
EarlyClock == 5        \* Date.now() at the start of a run on a simulated clock

\* ------------------------------------------------------ program constants
TX_RETRY_INTERVAL == 2000
MAX_TRIES == 3
FAKE_SIGNATURE == 99999999
SLEEP_MS_RPC == 2000
SLEEP_MS_LOOP == 0
ANCHOR_MAX_AGE == 10000
SLOT_MAX_AGE == 50
SPIN_SLEEP == 1
BLOCKHASH_FETCH_TIMEOUT == 5000
BLOCKHASH_POLL_SLEEP == 5000
\* process.env.MAX_BLOCKHASH_FETCH_ATTEMPTS (default 5) and
\* process.env.MAX_SLOT_FETCH_ATTEMPTS (default 100), as configured for the runs explored
MAX_BLOCKHASH_FETCH_ATTEMPTS == 2
MAX_SLOT_FETCH_ATTEMPTS == 2
SLOTS_SUBSCRIPTION_DELAY == 4000
RESUBSCRIBE_COOL_DOWN == 3000

None == <<>>
Some(v) == <<v>>
Val(o) == o[1]

Min(a, b) == IF a <= b THEN a ELSE b

\* ------------------------------------------------------- clock readings
Horizon == ANCHOR_MAX_AGE
EPOCH == -1

Hashes == 1..MaxHash
\* slot numbers on both sides of a change in the number of decimal digits
Slots == 9..(8 + MaxSlot)

\* The cluster hands out a blockhash together with its own last valid block height.
HeightOf(h) == 150 + h

\* getSignatureFromTransaction: the signature is a function of the signed message,
\* and the only part of the message that varies between probes is the blockhash.
SignatureOf(bh) == IF bh = None THEN 1000 ELSE 1000 + Val(bh)

Signatures == {SignatureOf(None)} \cup {SignatureOf(Some(h)) : h \in Hashes}

NotificationTypes == {"firstShredReceived", "completed", "createdBank"}

VARIABLES
  sinceEpoch,     \* Date.now(), saturating at Horizon
  ticks,          \* clock advances so far
  budget,         \* what one run explores: [ticks, reports]
  proc,           \* "running" | "exit0" (process.exit(0)) | "rejected" (pingThing threw)
  SKIP_VALIDATORS_APP, COMMITMENT_LEVEL,
  gBlockhash,     \* { value, updated_at, lastValidBlockHeight }
  gSlotSent,      \* { value, updated_at }
  chain,          \* cluster: signature -> slot it landed in (0: not landed)
  finalized,      \* cluster: the signatures whose slot is finalized
  \* watchBlockhash
  bhPc,           \* "fetch" (awaiting the race) | "sleep"
  bhSince,        \* reading taken when the pending timer was started
  attemptsBlockhash,
  lateFetch,      \* the getLatestBlockhash request that lost the race against the timer last:
                  \* "none" | "pending" | "settled"
  \* watchSlotSent
  slotPc,         \* "subscribe" | "feed" | "backoff"
  slotSince,
  attemptsSlot,
  slotSubs,       \* position subscriptions opened and not aborted
  \* pingThing
  pc, pcSince,
  tryCount,
  blockhash, lastValidBlockHeight, slotSent, slotLanded, signature, txStart,
  txSendAttempts,
  transaction,    \* transactionSignedWithFeePayer
  txEnd,
  sent,           \* signatures of the transactions submitted in this iteration, in order
  confSubs,       \* confirmation waits (signature subscriptions) opened and not ended
  plog,           \* the line pingThing logged last (of a handler's lines, the first)
  reports,        \* payloads handed to axios.post, in order
  \* the results file of the run
  csvDirExists,   \* fs.existsSync(CSV_DIR)
  csvFile,        \* results/${SCRIPT_START_TIME}.csv: absent, or its lines in order
  csvCalls        \* the arguments of the calls of appendToResultsCsv so far, in order

bhVars == <<gBlockhash, bhPc, bhSince, attemptsBlockhash, lateFetch>>
slotVars == <<gSlotSent, slotPc, slotSince, attemptsSlot, slotSubs>>
watcherVars == <<bhVars, slotVars>>
locals == <<blockhash, lastValidBlockHeight, slotSent, slotLanded, signature, txStart,
            txSendAttempts, transaction, txEnd, sent>>
probeVars == <<pc, pcSince, tryCount, locals, confSubs, plog, reports>>
csvVars == <<csvDirExists, csvFile, csvCalls>>
envVars == <<sinceEpoch, ticks, budget, SKIP_VALIDATORS_APP, COMMITMENT_LEVEL, csvVars>>

vars == <<sinceEpoch, ticks, budget, proc, SKIP_VALIDATORS_APP, COMMITMENT_LEVEL, gBlockhash, gSlotSent,
          chain, finalized, bhPc, bhSince, attemptsBlockhash, lateFetch,
          slotPc, slotSince, attemptsSlot, slotSubs,
          pc, pcSince, tryCount,
          blockhash, lastValidBlockHeight, slotSent, slotLanded, signature, txStart,
          txSendAttempts, transaction, txEnd, sent, confSubs, plog, reports,
          csvDirExists, csvFile, csvCalls>>

\* Date.now() as a stored reading
now == 0

\* Date.now() - r, for a stored reading r
Elapsed(r) == IF r = EPOCH THEN sinceEpoch ELSE r

\* the reading r after d more milliseconds; beyond `cap` no comparison the code
\* makes with r can tell its age
Older(r, d, cap) == IF r = EPOCH THEN EPOCH ELSE Min(r + d, cap)

\* ------------------------------------------------------------------ Init
\* one iteration of pingThing: MaxTicks clock advances, MaxReports payloads
OneIteration == [ticks |-> MaxTicks, reports |-> MaxReports]

\* as many iterations as the circuit breaker of pingThing takes to open
BreakerIterations == [ticks |-> MAX_TRIES * MaxTicks, reports |-> MAX_TRIES * MaxReports]

\* as many clock advances as pingThing needs to fail MAX_TRIES times in a row
\* (one settle delay for each failure)
FatalRun == [ticks |-> MAX_TRIES, reports |-> MaxReports]

\* process.env.COMMITMENT
CommitmentLevels == {"processed", "confirmed", "finalized"}

\* the results module is loaded and appendToResultsCsv has not been called:
\* no file bears the name of this run yet
InitResults(dir) ==
  /\ csvDirExists = dir
  /\ csvFile = None
  /\ csvCalls = <<>>

\* the three loops have run to their first await; Date.now() reads t, and the
\* environment sets SKIP_VALIDATORS_APP to skip and COMMITMENT to level
InitLoops(t, b, skip, level) ==
  /\ sinceEpoch = t
  /\ ticks = 0
  /\ budget = b
  /\ proc = "running"
  /\ SKIP_VALIDATORS_APP = skip
  /\ COMMITMENT_LEVEL = level
  /\ gBlockhash = [value |-> None, updated_at |-> EPOCH, lastValidBlockHeight |-> 0]
  /\ gSlotSent = [value |-> None, updated_at |-> EPOCH]
  /\ chain = [s \in Signatures |-> 0]
  /\ finalized = {}
  /\ bhPc = "fetch" /\ bhSince = now /\ attemptsBlockhash = 0 /\ lateFetch = "none"
  /\ slotPc = "subscribe" /\ slotSince = now /\ attemptsSlot = 0 /\ slotSubs = 0
  /\ pc = "loopSleep" /\ pcSince = now
  /\ tryCount = 0
  /\ blockhash = None /\ lastValidBlockHeight = None /\ slotSent = None
  /\ slotLanded = None /\ signature = None /\ txStart = None
  /\ txSendAttempts = 1
  /\ transaction = None /\ txEnd = None /\ sent = <<>>
  /\ confSubs = 0
  /\ plog = <<>>
  /\ reports = <<>>

\* a run in a working directory without a results directory
InitEnv(t, b, skip, level) == InitLoops(t, b, skip, level) /\ InitResults(FALSE)

\* the same with the environment's defaults: reports are posted, COMMITMENT is
\* not set
InitWith(t, b) == InitEnv(t, b, FALSE, "confirmed")

InitAt(t) == InitWith(t, OneIteration)

\* a run on the system clock: Date.now() is far beyond every window
Init == InitAt(Horizon)

\* a run on the system clock or on a simulated clock that starts near 0
InitAnyClock == InitAt(Horizon) \/ InitAt(EarlyClock)

\* ------------------------------------------------- watchBlockhash
\* gBlockhash after a successful fetch of (h, HeightOf(h))
BlockhashWritten(h) ==
  [value |-> Some(h), lastValidBlockHeight |-> HeightOf(h), updated_at |-> now]

\* a faulty catch block that clears the value and leaves the timestamp: the
\* pairing of value and timestamp (C3) must not survive it
BlockhashInvalidatedValueOnly(g) == [g EXCEPT !.value = None]

BlockhashInvalidated(g) == [g EXCEPT !.value = None, !.updated_at = EPOCH]

\* a faulty ceiling test, `>` for `>=`: exit at the ceiling (C6) must not survive it
BlockhashCeilingPassed(a) == a > MAX_BLOCKHASH_FETCH_ATTEMPTS

\* the finally block: process.exit(0) once attempts >= MAX_BLOCKHASH_FETCH_ATTEMPTS
BlockhashCeilingHit(a) == a >= MAX_BLOCKHASH_FETCH_ATTEMPTS

\* the end of one pass of the while loop: finally, then await sleep(5000)
BlockhashFinally(a) ==
  IF BlockhashCeilingHit(a)
    THEN proc' = "exit0" /\ UNCHANGED <<bhPc, bhSince>>
    ELSE proc' = proc /\ bhPc' = "sleep" /\ bhSince' = now

\* try body: the fetch answered before the 5000 ms timer
BlockhashFetchOk ==
  /\ proc = "running" /\ bhPc = "fetch"
  /\ \E h \in Hashes :
       /\ gBlockhash' = BlockhashWritten(h)
       /\ attemptsBlockhash' = 0
       /\ BlockhashFinally(0)
  /\ UNCHANGED <<envVars, chain, finalized, lateFetch, slotVars, probeVars>>

\* catch + finally, shared by a failed fetch and a timed-out one
BlockhashCatch ==
  /\ gBlockhash' = BlockhashInvalidated(gBlockhash)
  /\ attemptsBlockhash' = attemptsBlockhash + 1
  /\ BlockhashFinally(attemptsBlockhash + 1)
  /\ UNCHANGED <<envVars, chain, finalized, slotVars, probeVars>>

\* the fetch rejected before the 5000 ms timer
BlockhashFetchFail ==
  /\ proc = "running" /\ bhPc = "fetch"
  /\ BlockhashCatch
  /\ UNCHANGED lateFetch

\* the timer rejected first: safeRace rejects, the request stays in flight
BlockhashFetchTimeout ==
  /\ proc = "running" /\ bhPc = "fetch"
  /\ Elapsed(bhSince) >= BLOCKHASH_FETCH_TIMEOUT
  /\ BlockhashCatch
  /\ lateFetch' = "pending"

\* a faulty race whose losing request still runs the code after the await when
\* it answers: the discarding of late results (C29) must not survive it
BlockhashLateAnswerWrites ==
  /\ proc = "running" /\ lateFetch = "pending"
  /\ lateFetch' = "settled"
  /\ \E h \in Hashes : gBlockhash' = BlockhashWritten(h)
  /\ attemptsBlockhash' = 0
  /\ UNCHANGED <<envVars, proc, chain, finalized, bhPc, bhSince, slotVars, probeVars>>

\* the request of a timed-out fetch settles after the race is over: the race
\* has already rejected, and nothing else waits for the request
BlockhashLateAnswer ==
  /\ proc = "running" /\ lateFetch = "pending"
  /\ lateFetch' = "settled"
  /\ UNCHANGED <<envVars, proc, chain, finalized, gBlockhash, bhPc, bhSince, attemptsBlockhash,
                 slotVars, probeVars>>

\* await sleep(5000) is over: next fetch, next timer
BlockhashSleepDone ==
  /\ proc = "running" /\ bhPc = "sleep"
  /\ Elapsed(bhSince) >= BLOCKHASH_POLL_SLEEP
  /\ bhPc' = "fetch" /\ bhSince' = now
  /\ UNCHANGED <<envVars, proc, chain, finalized, gBlockhash, attemptsBlockhash, lateFetch, slotVars, probeVars>>

\* ------------------------------------------------- watchSlotSent
\* a faulty filter that takes every notification of a slot for a position:
\* the notification filter (C19) must not survive it
MatchingAnyType(type) == type \in NotificationTypes

MatchingType(type) == type = "firstShredReceived" \/ type = "completed"

SlotWritten(slot) == [value |-> Some(slot), updated_at |-> now]

SlotInvalidated == [value |-> None, updated_at |-> EPOCH]

SlotCeilingHit(a) == a >= MAX_SLOT_FETCH_ATTEMPTS

\* await subscribe(...) returned the notification stream
SlotSubscribeOk ==
  /\ proc = "running" /\ slotPc = "subscribe"
  /\ slotPc' = "feed"
  /\ slotSubs' = slotSubs + 1
  /\ UNCHANGED <<envVars, proc, chain, finalized, gSlotSent, slotSince, attemptsSlot, bhVars, probeVars>>

\* the body of the for-await loop, for the notification { type, slot }
SlotNotificationOf(type, slot) ==
  /\ proc = "running" /\ slotPc = "feed"
  /\ IF MatchingType(type)
       THEN /\ gSlotSent' = SlotWritten(slot)
            /\ attemptsSlot' = 0
            /\ UNCHANGED proc
       ELSE /\ gSlotSent' = SlotInvalidated
            /\ attemptsSlot' = attemptsSlot + 1
            /\ IF SlotCeilingHit(attemptsSlot + 1)
                 THEN proc' = "exit0"
                 ELSE proc' = proc
            \* `if (gSlotSent.value !== null)` is read right after the value was
            \* set to null: the 3000 ms wait it guards is never entered
  /\ UNCHANGED <<envVars, chain, finalized, slotPc, slotSince, slotSubs, bhVars, probeVars>>

\* one notification taken from the stream
SlotNotification ==
  \E type \in NotificationTypes, slot \in Slots : SlotNotificationOf(type, slot)

\* the stream ended without an error: finally aborts, the while loop subscribes again
SlotFeedEnd ==
  /\ proc = "running" /\ slotPc = "feed"
  /\ slotSubs' = slotSubs - 1
  /\ slotPc' = "subscribe"
  /\ UNCHANGED <<envVars, proc, chain, finalized, gSlotSent, slotSince, attemptsSlot, bhVars, probeVars>>

\* a faulty catch block that clears the position store when the subscription
\* fails: the store as a record of the latest notification (C38) must not
\* survive it
SlotErrorInvalidates ==
  /\ proc = "running" /\ slotPc \in {"subscribe", "feed"}
  /\ attemptsSlot <= MAX_SLOT_FETCH_ATTEMPTS
  /\ attemptsSlot' = attemptsSlot + 1
  /\ slotPc' = "backoff" /\ slotSince' = now
  /\ gSlotSent' = SlotInvalidated
  /\ UNCHANGED <<envVars, proc, chain, finalized, slotSubs, bhVars, probeVars>>

\* catch: subscribe rejected or the stream threw; counts a failure, sleeps.
\* (the counter is explored up to one past the ceiling)
SlotError ==
  /\ proc = "running" /\ slotPc \in {"subscribe", "feed"}
  /\ attemptsSlot <= MAX_SLOT_FETCH_ATTEMPTS
  /\ attemptsSlot' = attemptsSlot + 1
  /\ slotPc' = "backoff" /\ slotSince' = now
  /\ UNCHANGED <<envVars, proc, chain, finalized, gSlotSent, slotSubs, bhVars, probeVars>>

\* a faulty catch block that does not await its sleep: the error back-off
\* (C22) must not survive it
SlotBackoffDoneEarly ==
  /\ proc = "running" /\ slotPc = "backoff"
  /\ slotSubs' = 0
  /\ slotPc' = "subscribe"
  /\ UNCHANGED <<envVars, proc, chain, finalized, gSlotSent, slotSince, attemptsSlot, bhVars, probeVars>>

\* a faulty loop without the finally block: the teardown of the position
\* subscription (C18) must not survive it
SlotBackoffDoneNoAbort ==
  /\ proc = "running" /\ slotPc = "backoff"
  /\ Elapsed(slotSince) >= SLOTS_SUBSCRIPTION_DELAY
  /\ slotPc' = "subscribe"
  /\ UNCHANGED <<envVars, proc, chain, finalized, gSlotSent, slotSince, attemptsSlot, slotSubs,
                 bhVars, probeVars>>

\* await sleep(SLOTS_SUBSCRIPTION_DELAY) is over: finally aborts, next subscribe
SlotBackoffDone ==
  /\ proc = "running" /\ slotPc = "backoff"
  /\ Elapsed(slotSince) >= SLOTS_SUBSCRIPTION_DELAY
  /\ slotSubs' = 0
  /\ slotPc' = "subscribe"
  /\ UNCHANGED <<envVars, proc, chain, finalized, gSlotSent, slotSince, attemptsSlot, bhVars, probeVars>>

\* ------------------------------------------------- pingThing
\* a faulty gate, `<=` for `<`: gating by age (C1) must not survive it
IsFreshInclusive ==
  /\ Elapsed(gBlockhash.updated_at) <= ANCHOR_MAX_AGE
  /\ Elapsed(gSlotSent.updated_at) <= SLOT_MAX_AGE

\* the condition of the wait-for-fresh loop
IsFresh ==
  /\ Elapsed(gBlockhash.updated_at) < ANCHOR_MAX_AGE
  /\ Elapsed(gSlotSent.updated_at) < SLOT_MAX_AGE

\* a faulty sanity check, `>` for `<`: C4 must not survive it
JsGreater(a, b) ==
  IF a = None THEN FALSE
  ELSE IF b = None THEN Val(a) > 0
  ELSE Val(a) > Val(b)

\* JavaScript `a < b` for slotLanded (undefined when absent) and slotSent (null
\* when absent): undefined compares false, null compares as 0
JsLess(a, b) ==
  IF a = None THEN FALSE
  ELSE IF b = None THEN Val(a) < 0
  ELSE Val(a) < Val(b)

\* BigInt(n).toString(): the decimal digits of n, most significant first
RECURSIVE BigIntToString(_)
BigIntToString(n) ==
  IF n < 10 THEN <<n>> ELSE Append(BigIntToString(n \div 10), n % 10)

\* a faulty subtraction, txStart - txEnd: the reported time (C8) must not survive it
BetweenSwapped(start, end) == Elapsed(end) - Elapsed(start)

\* end - start, for two stored readings
Between(start, end) == Elapsed(start) - Elapsed(end)

\* the object handed to JSON.stringify
Payload(end, start, sig, sentSlot, landedSlot) ==
  [time |-> Between(start, end),
   signature |-> sig,
   transaction_type |-> "transfer",
   success |-> sig # FAKE_SIGNATURE,
   application |-> "web3",
   commitment_level |-> COMMITMENT_LEVEL,
   slot_sent |-> BigIntToString(sentSlot),
   slot_landed |-> BigIntToString(landedSlot)]

\* `continue` of the outer while loop: back to await sleep(SLEEP_MS_LOOP)
Continue ==
  /\ pc' = "loopSleep" /\ pcSince' = now

\* a faulty outer catch that compares before it counts, `tryCount++ === MAX_TRIES`:
\* the circuit breaker (C11) must not survive it
OuterCatchPostIncrement ==
  /\ plog' = <<"ERROR">>
  /\ tryCount' = tryCount + 1
  /\ IF tryCount = MAX_TRIES
       THEN proc' = "rejected" /\ UNCHANGED <<pc, pcSince>>
       ELSE proc' = proc /\ Continue

\* the outer catch: the third consecutive failure re-throws out of pingThing
OuterCatch ==
  /\ plog' = <<"ERROR">>
  /\ tryCount' = tryCount + 1
  /\ IF tryCount + 1 = MAX_TRIES
       THEN proc' = "rejected" /\ UNCHANGED <<pc, pcSince>>
       ELSE proc' = proc /\ Continue

\* the declarations at the top of the loop body
Declared ==
  /\ slotLanded' = None /\ signature' = None /\ txStart' = None
  /\ txSendAttempts' = 1 /\ txEnd' = None /\ sent' = <<>>

\* a faulty loop that starts every pass of the wait with a counter of 0: the
\* counter frame (C28) must not survive it
AwaitFreshResets ==
  /\ IF IsFresh
       THEN /\ blockhash' = gBlockhash.value
            /\ lastValidBlockHeight' = Some(gBlockhash.lastValidBlockHeight)
            /\ slotSent' = gSlotSent.value
            /\ transaction' = Some([blockhash |-> gBlockhash.value,
                                    lastValidBlockHeight |-> gBlockhash.lastValidBlockHeight])
            /\ pc' = "sign" /\ pcSince' = now
       ELSE /\ blockhash' = None /\ lastValidBlockHeight' = None /\ slotSent' = None
            /\ transaction' = None
            /\ pc' = "spin" /\ pcSince' = now
  /\ tryCount' = 0
  /\ UNCHANGED <<envVars, proc, chain, finalized, watcherVars, confSubs, plog, reports>>

\* one pass of the wait-for-fresh loop; when it breaks, the transaction message
\* is built in the same synchronous run and signTransaction is awaited
AwaitFresh ==
  /\ IF IsFresh
       THEN /\ blockhash' = gBlockhash.value
            /\ lastValidBlockHeight' = Some(gBlockhash.lastValidBlockHeight)
            /\ slotSent' = gSlotSent.value
            /\ transaction' = Some([blockhash |-> gBlockhash.value,
                                    lastValidBlockHeight |-> gBlockhash.lastValidBlockHeight])
            /\ pc' = "sign" /\ pcSince' = now
       ELSE /\ blockhash' = None /\ lastValidBlockHeight' = None /\ slotSent' = None
            /\ transaction' = None
            /\ pc' = "spin" /\ pcSince' = now
  /\ UNCHANGED <<envVars, proc, chain, finalized, watcherVars, confSubs, tryCount, plog, reports>>

\* await sleep(SLEEP_MS_LOOP) is over: a new iteration
LoopSleepDone ==
  /\ proc = "running" /\ pc = "loopSleep"
  /\ Elapsed(pcSince) >= SLEEP_MS_LOOP
  /\ Len(reports) < budget.reports
  /\ Declared
  /\ AwaitFresh

\* await sleep(1) is over: the next pass of the wait-for-fresh loop
SpinDone ==
  /\ proc = "running" /\ pc = "spin"
  /\ Elapsed(pcSince) >= SPIN_SLEEP
  /\ UNCHANGED <<slotLanded, signature, txStart, txSendAttempts, txEnd, sent>>
  /\ AwaitFresh

\* a faulty submit that stamps the anchor the store holds when the transaction
\* is sent: snapshot isolation (C12) must not survive it
SubmitRestamped ==
  /\ sent' = Append(sent, SignatureOf(gBlockhash.value))
  /\ pc' = "send" /\ pcSince' = now

\* mSendTransaction(transactionSignedWithFeePayer) is called
Submit ==
  /\ sent' = Append(sent, SignatureOf(Val(transaction).blockhash))
  /\ pc' = "send" /\ pcSince' = now

SignOk ==
  /\ proc = "running" /\ pc = "sign"
  /\ LET sig == SignatureOf(Val(transaction).blockhash) IN
       /\ signature' = Some(sig)
       /\ txStart' = Some(now)
       /\ plog' = <<"Sending", sig>>
       /\ Submit
  /\ UNCHANGED <<envVars, proc, chain, finalized, watcherVars, confSubs, tryCount, reports,
                 blockhash, lastValidBlockHeight, slotSent, slotLanded,
                 txSendAttempts, transaction, txEnd>>

ErrorKinds == {"BlockhashNotFound", "TransactionExpiredBlockheightExceededError", "Error"}

\* a faulty handler that counts a blockhash-not-found error as a failure of
\* the iteration: C7 must not survive it
InnerCatchCounted(e) ==
  IF e = "BlockhashNotFound"
    THEN /\ plog' = <<"ERROR: Blockhash not found">>
         /\ tryCount' = tryCount + 1
         /\ Continue
         /\ UNCHANGED <<proc, signature, txEnd>>
    ELSE /\ plog' = <<"ERROR: ", e>>
         /\ Continue
         /\ UNCHANGED <<proc, tryCount, signature, txEnd>>

\* the catch of the inner try, for an error e thrown while building or signing
\* (everything thrown inside the resend loop is caught by the loop itself)
InnerCatch(e) ==
  IF e = "BlockhashNotFound"
    THEN /\ plog' = <<"ERROR: Blockhash not found">>
         /\ Continue
         /\ UNCHANGED <<proc, tryCount, signature, txEnd>>
  ELSE IF e = "TransactionExpiredBlockheightExceededError"
    THEN /\ plog' = <<"ERROR: Blockhash expired/block height exceeded. TX failure sent to VA.">>
         /\ signature' = Some(FAKE_SIGNATURE)
         /\ txEnd' = Some(now)
         /\ pc' = "settle" /\ pcSince' = now
         /\ UNCHANGED <<proc, tryCount>>
    ELSE /\ plog' = <<"ERROR: ", e>>
         /\ Continue
         /\ UNCHANGED <<proc, tryCount, signature, txEnd>>

\* a faulty inner try that lets an error thrown while signing escape pingThing:
\* the list of fatal causes (C14) must not survive it
SignThrowFatal ==
  /\ proc = "running" /\ pc = "sign"
  /\ proc' = "rejected"
  /\ plog' = <<"ERROR">>
  /\ UNCHANGED <<envVars, chain, finalized, watcherVars, confSubs, reports, pc, pcSince, tryCount, locals>>

\* a faulty inner try that leaves signTransaction outside of it, so that an
\* error thrown while signing lands in the outer catch: C24 must not survive it
SignThrowCounted ==
  /\ proc = "running" /\ pc = "sign"
  /\ OuterCatch
  /\ UNCHANGED <<envVars, chain, finalized, watcherVars, confSubs, reports, locals>>

\* a faulty inner catch that clears the anchor store when signing fails, a
\* write by pingThing: the single-writer rule (C32) must not survive it
SignThrowOfInvalidates(e) ==
  /\ proc = "running" /\ pc = "sign"
  /\ InnerCatch(e)
  /\ gBlockhash' = BlockhashInvalidated(gBlockhash)
  /\ UNCHANGED <<envVars, chain, finalized, bhPc, bhSince, attemptsBlockhash, lateFetch, slotVars,
                 confSubs, reports,
                 blockhash, lastValidBlockHeight, slotSent, slotLanded, txStart,
                 txSendAttempts, transaction, sent>>

\* signTransaction (or the pipe that builds the message) throws e: the first
\* statement that can throw is already inside the inner try
SignThrowOf(e) ==
  /\ proc = "running" /\ pc = "sign"
  /\ InnerCatch(e)
  /\ UNCHANGED <<envVars, chain, finalized, watcherVars, confSubs, reports,
                 blockhash, lastValidBlockHeight, slotSent, slotLanded, txStart,
                 txSendAttempts, transaction, sent>>

SignThrow == \E e \in ErrorKinds : SignThrowOf(e)

\* a faulty catch that gives the transaction up for failed at the first pass
\* that ends without a confirmation: C5 must not survive it
ResendCatchMarksFailed ==
  /\ txSendAttempts <= MaxResends
  /\ plog' = <<"Tx not confirmed after", TX_RETRY_INTERVAL * txSendAttempts, "ms, resending">>
  /\ txSendAttempts' = txSendAttempts + 1
  /\ signature' = Some(FAKE_SIGNATURE)
  /\ Submit
  /\ UNCHANGED <<envVars, proc, chain, finalized, watcherVars, tryCount, reports,
                 blockhash, lastValidBlockHeight, slotSent, slotLanded,
                 txStart, transaction, txEnd>>

\* a faulty catch that counts before it logs, `++txSendAttempts`: C9 must not
\* survive it
ResendCatchPreIncrement ==
  /\ txSendAttempts <= MaxResends
  /\ plog' = <<"Tx not confirmed after", TX_RETRY_INTERVAL * (txSendAttempts + 1), "ms, resending">>
  /\ txSendAttempts' = txSendAttempts + 1
  /\ Submit
  /\ UNCHANGED <<envVars, proc, chain, finalized, watcherVars, tryCount, reports,
                 blockhash, lastValidBlockHeight, slotSent, slotLanded, signature,
                 txStart, transaction, txEnd>>

\* the catch inside the resend loop: log, count, and the loop sends again.
\* abortController.abort() is called nowhere: a confirmation wait that lost the
\* race stays open
ResendCatch ==
  /\ txSendAttempts <= MaxResends
  /\ plog' = <<"Tx not confirmed after", TX_RETRY_INTERVAL * txSendAttempts, "ms, resending">>
  /\ txSendAttempts' = txSendAttempts + 1
  /\ Submit
  /\ UNCHANGED <<envVars, proc, chain, finalized, watcherVars, tryCount, reports,
                 blockhash, lastValidBlockHeight, slotSent, slotLanded, signature,
                 txStart, transaction, txEnd>>

\* a faulty loop that does not await the confirmation: once the submit is
\* answered it goes on to the next iteration with the transaction still in
\* flight.  Sequential iterations (C31) must not survive it
SendOkDetached ==
  /\ proc = "running" /\ pc = "send"
  /\ Continue
  /\ UNCHANGED <<envVars, proc, chain, finalized, watcherVars, confSubs, tryCount, locals, plog, reports>>

\* the submit round trip answered: the confirmation promise and the retry
\* timer are created and raced
SendOk ==
  /\ proc = "running" /\ pc = "send"
  /\ confSubs' = confSubs + 1
  /\ pc' = "race" /\ pcSince' = now
  /\ UNCHANGED <<envVars, proc, chain, finalized, watcherVars, tryCount, locals, plog, reports>>

\* mSendTransaction rejected with the error e: `catch (e)` of the resend loop,
\* which does not look at e
SendFailOf(e) ==
  /\ proc = "running" /\ pc = "send"
  /\ ResendCatch
  /\ UNCHANGED confSubs

SendFail == \E e \in ErrorKinds : SendFailOf(e)

\* the retry timer won the race
RaceTimeout ==
  /\ proc = "running" /\ pc = "race"
  /\ Elapsed(pcSince) >= TX_RETRY_INTERVAL
  /\ ResendCatch
  /\ UNCHANGED confSubs

\* the confirmation promise of this round rejected with the error e: its wait
\* is over, and the same `catch (e)` runs
RaceConfirmFailOf(e) ==
  /\ proc = "running" /\ pc = "race"
  /\ ResendCatch
  /\ confSubs' = confSubs - 1

RaceConfirmFail == \E e \in ErrorKinds : RaceConfirmFailOf(e)

\* the cluster's answer for the signature sig at the commitment `level`
Reached(sig, level) ==
  chain[sig] # 0 /\ (level = "finalized" => sig \in finalized)

\* the cluster processes a submitted transaction and confirms its slot (the
\* code never waits for less than "confirmed", so the stage before is not
\* told apart)
TxLands ==
  /\ proc = "running" /\ pc \in {"send", "race"}
  /\ chain[Val(signature)] = 0
  /\ \E s \in Slots : chain' = [chain EXCEPT ![Val(signature)] = s]
  /\ UNCHANGED <<envVars, proc, finalized, watcherVars, probeVars>>

\* the cluster finalizes the slot of a transaction it has confirmed
TxFinalized ==
  /\ proc = "running" /\ signature # None /\ Val(signature) \in Signatures
  /\ chain[Val(signature)] # 0 /\ Val(signature) \notin finalized
  /\ finalized' = finalized \cup {Val(signature)}
  /\ UNCHANGED <<envVars, proc, chain, watcherVars, probeVars>>

\* the confirmation promise won the race.  A confirmation is the cluster's
\* answer to a submit and the subscription that follows it: it is never
\* observed at the clock reading txStart was taken at.  The waits that lost
\* earlier rounds are for the same signature: the confirmation ends them too.
RaceConfirmed ==
  /\ proc = "running" /\ pc = "race"
  /\ Reached(Val(signature), "confirmed")
  /\ Elapsed(Val(txStart)) > 0
  /\ plog' = <<"Confirmed tx", Val(signature)>>
  /\ txEnd' = Some(now)
  /\ confSubs' = 0
  /\ pc' = "settle" /\ pcSince' = now
  /\ UNCHANGED <<envVars, proc, chain, finalized, watcherVars, tryCount, reports,
                 blockhash, lastValidBlockHeight, slotSent, slotLanded, signature,
                 txStart, txSendAttempts, transaction, sent>>

\* a faulty report step with `tryCount = 0` inside `if (!SKIP_VALIDATORS_APP)`:
\* the reset under the skip flag (C35) must not survive it
AfterLookupSkipKeepsCount(landed) ==
  IF JsLess(landed, slotSent)
    THEN /\ plog' = <<"ERROR: Slot", Val(landed), "<", Val(slotSent), ". Not sending to VA.">>
         /\ Continue
         /\ UNCHANGED <<proc, tryCount, reports>>
  ELSE IF landed = None \/ slotSent = None
    THEN \* BigInt(undefined) and BigInt(null) throw a TypeError
         /\ OuterCatch
         /\ UNCHANGED reports
  ELSE LET vAPayload == Payload(Val(txEnd), Val(txStart), Val(signature),
                                Val(slotSent), Val(landed)) IN
       IF ~SKIP_VALIDATORS_APP
         THEN /\ reports' = Append(reports, vAPayload)
              /\ pc' = "post" /\ pcSince' = now
              /\ UNCHANGED <<proc, tryCount, plog>>
         ELSE /\ Continue
              /\ UNCHANGED <<proc, tryCount, plog, reports>>

\* from the sanity check to the axios.post call, with slotLanded = landed
AfterLookup(landed) ==
  IF JsLess(landed, slotSent)
    THEN /\ plog' = <<"ERROR: Slot", Val(landed), "<", Val(slotSent), ". Not sending to VA.">>
         /\ Continue
         /\ UNCHANGED <<proc, tryCount, reports>>
  ELSE IF landed = None \/ slotSent = None
    THEN \* BigInt(undefined) and BigInt(null) throw a TypeError
         /\ OuterCatch
         /\ UNCHANGED reports
  ELSE LET vAPayload == Payload(Val(txEnd), Val(txStart), Val(signature),
                                Val(slotSent), Val(landed)) IN
       IF ~SKIP_VALIDATORS_APP
         THEN /\ reports' = Append(reports, vAPayload)
              /\ pc' = "post" /\ pcSince' = now
              /\ UNCHANGED <<proc, tryCount, plog>>
         ELSE /\ tryCount' = 0
              /\ Continue
              /\ UNCHANGED <<proc, plog, reports>>

\* await sleep(SLEEP_MS_RPC) is over
SettleDone ==
  /\ proc = "running" /\ pc = "settle"
  /\ Elapsed(pcSince) >= SLEEP_MS_RPC
  /\ IF Val(signature) # FAKE_SIGNATURE
       THEN /\ pc' = "lookup" /\ pcSince' = now
            /\ UNCHANGED <<proc, tryCount, plog, reports>>
       ELSE AfterLookup(slotLanded)
  /\ UNCHANGED <<envVars, chain, finalized, watcherVars, confSubs, locals>>

\* a faulty lookup that counts a transaction not found as a failure of the
\* iteration: C10 must not survive it
LookupNullCounted ==
  /\ proc = "running" /\ pc = "lookup"
  /\ plog' = <<"ERROR: tx is not found on RPC within", SLEEP_MS_RPC, "ms. Not sending to VA.">>
  /\ tryCount' = tryCount + 1
  /\ Continue
  /\ UNCHANGED <<envVars, proc, chain, finalized, watcherVars, confSubs, locals, reports>>

\* getTransaction answered null
LookupNull ==
  /\ proc = "running" /\ pc = "lookup"
  /\ plog' = <<"ERROR: tx is not found on RPC within", SLEEP_MS_RPC, "ms. Not sending to VA.">>
  /\ Continue
  /\ UNCHANGED <<envVars, proc, chain, finalized, watcherVars, confSubs, tryCount, locals, reports>>

\* getTransaction answered the transaction
LookupOk ==
  /\ proc = "running" /\ pc = "lookup"
  /\ Reached(Val(signature), COMMITMENT_LEVEL)
  /\ slotLanded' = Some(chain[Val(signature)])
  /\ AfterLookup(Some(chain[Val(signature)]))
  /\ UNCHANGED <<envVars, chain, finalized, watcherVars, confSubs,
                 blockhash, lastValidBlockHeight, slotSent, signature, txStart,
                 txSendAttempts, transaction, txEnd, sent>>

\* getTransaction rejected
LookupThrow ==
  /\ proc = "running" /\ pc = "lookup"
  /\ OuterCatch
  /\ UNCHANGED <<envVars, chain, finalized, watcherVars, confSubs, locals, reports>>

\* axios.post answered 2xx
PostOk ==
  /\ proc = "running" /\ pc = "post"
  /\ tryCount' = 0
  /\ Continue
  /\ UNCHANGED <<envVars, proc, chain, finalized, watcherVars, confSubs, locals, plog, reports>>

\* axios.post rejected (network error or a status outside 2xx)
PostFail ==
  /\ proc = "running" /\ pc = "post"
  /\ OuterCatch
  /\ UNCHANGED <<envVars, chain, finalized, watcherVars, confSubs, locals, reports>>

\* ------------------------------------------------- the clock
\* milliseconds until the reading r is w old
Due(r, w) == IF Elapsed(r) < w THEN {w - Elapsed(r)} ELSE {}

ProbeTimers ==
  CASE pc = "loopSleep" -> Due(pcSince, SLEEP_MS_LOOP)
    [] pc = "race" -> Due(pcSince, TX_RETRY_INTERVAL)
    [] pc = "settle" -> Due(pcSince, SLEEP_MS_RPC)
    [] OTHER -> {}

\* the clock is let run to a reading at which something can change: the
\* expiry of a pending timer or the end of the position's freshness window
\* (the anchor's window ends with the second of two 5000 ms timers)
Deadlines ==
  ProbeTimers
  \cup Due(bhSince, BLOCKHASH_FETCH_TIMEOUT)
  \cup (IF slotPc = "backoff" THEN Due(slotSince, SLOTS_SUBSCRIPTION_DELAY) ELSE {})
  \cup Due(gSlotSent.updated_at, SLOT_MAX_AGE)

\* the 1 ms timer of the wait-for-fresh loop is found expired at the next of
\* these readings; it is a reading of its own only when nothing else is pending
Delays ==
  IF Deadlines # {} THEN Deadlines
  ELSE IF pc = "spin" THEN Due(pcSince, SPIN_SLEEP) ELSE {}

TimedPc == pc \in {"loopSleep", "spin", "send", "race", "settle"}

\* between the declarations of an iteration and its `continue`
InIteration == pc # "loopSleep"

\* d milliseconds pass: every stored reading is d older
Advance(d) ==
  /\ sinceEpoch' = Min(sinceEpoch + d, Horizon)
  /\ gBlockhash' = [gBlockhash EXCEPT !.updated_at = Older(@, d, ANCHOR_MAX_AGE)]
  /\ gSlotSent' = [gSlotSent EXCEPT !.updated_at = Older(@, d, SLOT_MAX_AGE)]
  /\ bhSince' = Older(bhSince, d, BLOCKHASH_FETCH_TIMEOUT)
  /\ slotSince' = IF slotPc = "backoff"
                    THEN Older(slotSince, d, SLOTS_SUBSCRIPTION_DELAY) ELSE slotSince
  /\ pcSince' = IF TimedPc THEN Older(pcSince, d, TX_RETRY_INTERVAL) ELSE pcSince
  \* txStart and txEnd are only ever subtracted from one another, so they
  \* age unsaturated, and only while the iteration that declared them runs
  /\ txStart' = IF txStart # None /\ InIteration
                  THEN Some(Val(txStart) + d) ELSE txStart
  /\ txEnd' = IF txEnd # None /\ InIteration
                THEN Some(Val(txEnd) + d) ELSE txEnd
  /\ UNCHANGED <<proc, budget, SKIP_VALIDATORS_APP, COMMITMENT_LEVEL, csvVars, chain, finalized,
                 bhPc, attemptsBlockhash, lateFetch, slotPc, attemptsSlot, slotSubs,
                 pc, tryCount, blockhash, lastValidBlockHeight, slotSent, slotLanded,
                 signature, txSendAttempts, transaction, sent, confSubs, plog, reports>>

Tick ==
  /\ proc = "running"
  /\ ticks < budget.ticks
  /\ ticks' = ticks + 1
  /\ \E d \in Delays : Advance(d)

NextBlockhash ==
  \/ BlockhashFetchOk \/ BlockhashFetchFail \/ BlockhashFetchTimeout \/ BlockhashSleepDone
  \/ BlockhashLateAnswer

NextSlot ==
  SlotSubscribeOk \/ SlotNotification \/ SlotFeedEnd \/ SlotError \/ SlotBackoffDone

NextPing ==
  \/ LoopSleepDone \/ SpinDone \/ SignOk \/ SignThrow
  \/ SendOk \/ SendFail \/ RaceTimeout \/ RaceConfirmFail \/ TxLands \/ TxFinalized
  \/ RaceConfirmed \/ SettleDone \/ LookupNull \/ LookupOk \/ LookupThrow \/ PostOk \/ PostFail

Next == Tick \/ NextBlockhash \/ NextSlot \/ NextPing

Spec == Init /\ [][Next]_vars


\* the two watchers alone
NextWatchers == Tick \/ NextBlockhash \/ NextSlot

\* the watchers and the part of pingThing that reads what they write: the
\* wait-for-fresh loop, up to the awaited signTransaction
NextGate == NextWatchers \/ LoopSleepDone \/ SpinDone

SpecGate == InitAnyClock /\ [][NextGate]_vars

\* pingThing from the first answers of the two sources on: the anchor is
\* fetched once and the position feed stays connected
NextProbe == Tick \/ NextPing \/ BlockhashFetchOk \/ SlotSubscribeOk \/ SlotNotification

SpecProbe == Init /\ [][NextProbe]_vars

\* Scenario D: every collaborator of pingThing answers and only the reporter
\* may fail, for as many iterations as the circuit breaker takes to open
NextReporter ==
  \/ Tick \/ BlockhashFetchOk \/ SlotSubscribeOk \/ SlotNotification
  \/ LoopSleepDone \/ SpinDone \/ SignOk \/ SendOk \/ TxLands \/ RaceConfirmed
  \/ SettleDone \/ LookupOk \/ PostOk \/ PostFail

SpecReporter == InitWith(Horizon, BreakerIterations) /\ [][NextReporter]_vars


\* pingThing with every collaborator answering, while watchBlockhash goes on
\* refreshing and invalidating the anchor and the position feed goes on writing
NextIsolation ==
  \/ Tick \/ NextBlockhash \/ SlotSubscribeOk \/ SlotNotification
  \/ LoopSleepDone \/ SpinDone \/ SignOk \/ SendOk \/ TxLands \/ RaceConfirmed
  \/ SettleDone \/ LookupOk \/ PostOk

SpecIsolation == Init /\ [][NextIsolation]_vars

\* the three loops with their failures: both watchers whole, and of pingThing
\* the iterations that fail (signing throws, the transaction is never
\* confirmed, the payload cannot be built), FatalRun clock advances long
NextFatal ==
  \/ NextWatchers \/ LoopSleepDone \/ SpinDone \/ SignOk \/ SignThrow
  \/ SendOk \/ SendFail \/ RaceTimeout \/ RaceConfirmFail \/ SettleDone

SpecFatal == InitWith(Horizon, FatalRun) /\ [][NextFatal]_vars

\* pingThing under every setting of SKIP_VALIDATORS_APP and COMMITMENT, with
\* one clock advance more than one iteration needs, so that an iteration can
\* follow a failed one
InitConfig ==
  \E skip \in BOOLEAN, level \in CommitmentLevels :
    InitEnv(Horizon, [ticks |-> MaxTicks + 1, reports |-> MaxReports], skip, level)

SpecConfig == InitConfig /\ [][NextProbe]_vars

\* the clock without a budget of advances: it runs on for as long as a timer
\* is pending (the stored ages saturate, so the watchers alone have finitely
\* many states)
ClockRuns ==
  /\ proc = "running"
  /\ \E d \in Delays : Advance(d)
  /\ UNCHANGED ticks

NextSilence == ClockRuns \/ NextBlockhash \/ NextSlot

\* the two watchers with the fairness their scheduling has: the clock goes on
\* and an expired timer's continuation runs.  What the cluster sends, and
\* when, is left open: a feed may stay silent for ever.
SpecSilence ==
  /\ Init /\ [][NextSilence]_vars
  /\ WF_vars(ClockRuns)
  /\ WF_vars(SlotBackoffDone)
  /\ WF_vars(BlockhashSleepDone)
  /\ WF_vars(BlockhashFetchTimeout)

\* the best case for the wait-for-fresh loop.  The clock moves on only when no
\* continuation is due: a timer of pingThing that has expired runs first, and
\* every fetch of watchBlockhash is answered at once
ClockRunsIdle ==
  /\ ~(pc = "spin" /\ Elapsed(pcSince) >= SPIN_SLEEP)
  /\ pc # "loopSleep"
  /\ bhPc # "fetch"
  /\ ClockRuns

\* a notification that arrives while the 1 ms timer of the wait-for-fresh loop
\* runs is taken at the reading at which that timer expires
SlotNotificationAtPoll(type) ==
  /\ pc = "spin" => Elapsed(pcSince) >= SPIN_SLEEP
  /\ \E slot \in Slots : SlotNotificationOf(type, slot)

NextFresh ==
  \/ ClockRunsIdle \/ BlockhashFetchOk \/ BlockhashSleepDone
  \/ SlotSubscribeOk \/ (\E type \in NotificationTypes : SlotNotificationAtPoll(type))
  \/ LoopSleepDone \/ SpinDone

\* the three loops on a cluster that answers: weak fairness of every
\* continuation and of the clock.  Which notifications the feed delivers, and
\* in which order, is left open.
SpecFresh ==
  /\ Init /\ [][NextFresh]_vars
  /\ WF_vars(ClockRunsIdle)
  /\ WF_vars(BlockhashFetchOk) /\ WF_vars(BlockhashSleepDone)
  /\ WF_vars(SlotSubscribeOk)
  /\ WF_vars(LoopSleepDone) /\ WF_vars(SpinDone)


\* ------------------------------------- the custom-endpoint variant
\* pingThing of ping-thing-client-token.mjs (lines 351-671), run with
\* USE_PRIORITY_FEE=true.  Its wait-for-fresh loop, its signing, its
\* confirmation race and its inner catch read as those of the main client; it
\* differs in what lies between: the priority fee is fetched (an await) before
\* the message is built, the transaction is posted to CUSTOM_SEND_TX_ENDPOINT,
\* and the catch of the resend loop looks at what it caught.

\* an exception: what the handlers read of it
NewError(message) == [name |-> "Error", message |-> message, code |-> "none"]

SOLANA_ERROR__BLOCK_HEIGHT_EXCEEDED == "BLOCK_HEIGHT_EXCEEDED"
SOLANA_ERROR__TRANSACTION_ERROR__BLOCKHASH_NOT_FOUND == "BLOCKHASH_NOT_FOUND"

\* a SolanaError of @solana/errors: its name is "SolanaError", its code is in
\* context.__code
SolanaError(code) == [name |-> "SolanaError", message |-> "Solana error", code |-> code]

isSolanaError(e, code) == e.name = "SolanaError" /\ e.code = code

\* what the collaborators (fetch, the RPC transport, the signature
\* subscription) reject with
Thrown ==
  {SolanaError(SOLANA_ERROR__BLOCK_HEIGHT_EXCEEDED),
   SolanaError(SOLANA_ERROR__TRANSACTION_ERROR__BLOCKHASH_NOT_FOUND),
   NewError("fetch failed")}

\* the catch of the inner try
InnerCatchCustom(e) ==
  IF isSolanaError(e, SOLANA_ERROR__TRANSACTION_ERROR__BLOCKHASH_NOT_FOUND)
    THEN /\ plog' = <<"ERROR: Blockhash not found">>
         /\ Continue
         /\ UNCHANGED <<proc, tryCount, signature, txEnd>>
  ELSE IF e.name = "TransactionExpiredBlockheightExceededError"
    THEN /\ plog' = <<"ERROR: Blockhash expired/block height exceeded. TX failure sent to VA.">>
         /\ signature' = Some(FAKE_SIGNATURE)
         /\ txEnd' = Some(now)
         /\ pc' = "settle" /\ pcSince' = now
         /\ UNCHANGED <<proc, tryCount>>
    ELSE /\ plog' = <<"ERROR: ", e.name>>
         /\ Continue
         /\ UNCHANGED <<proc, tryCount, signature, txEnd>>

\* what the catch of the resend loop throws on, for an error e other than
\* the retry timer's
Rethrown(e) ==
  IF isSolanaError(e, SOLANA_ERROR__BLOCK_HEIGHT_EXCEEDED)
    THEN NewError("TransactionExpiredBlockheightExceededError")
    ELSE e

\* one pass of the wait-for-fresh loop; when it breaks,
\* getRecentPrioritizationFeesTriton is awaited
AwaitFreshCustom ==
  /\ IF IsFresh
       THEN /\ blockhash' = gBlockhash.value
            /\ lastValidBlockHeight' = Some(gBlockhash.lastValidBlockHeight)
            /\ slotSent' = gSlotSent.value
            /\ pc' = "fee" /\ pcSince' = now
       ELSE /\ blockhash' = None /\ lastValidBlockHeight' = None /\ slotSent' = None
            /\ pc' = "spin" /\ pcSince' = now
  /\ transaction' = None
  /\ UNCHANGED <<envVars, proc, chain, finalized, watcherVars, confSubs, tryCount, plog, reports>>

LoopSleepDoneCustom ==
  /\ proc = "running" /\ pc = "loopSleep"
  /\ Elapsed(pcSince) >= SLEEP_MS_LOOP
  /\ Len(reports) < budget.reports
  /\ Declared
  /\ AwaitFreshCustom

SpinDoneCustom ==
  /\ proc = "running" /\ pc = "spin"
  /\ Elapsed(pcSince) >= SPIN_SLEEP
  /\ UNCHANGED <<slotLanded, signature, txStart, txSendAttempts, txEnd, sent>>
  /\ AwaitFreshCustom

\* the fee request answered: the message is built, with the lifetime read
\* from gBlockhash, and signTransaction is awaited
FeeFetched ==
  /\ proc = "running" /\ pc = "fee"
  /\ transaction' = Some([blockhash |-> gBlockhash.value,
                          lastValidBlockHeight |-> gBlockhash.lastValidBlockHeight])
  /\ plog' = <<"Fees">>
  /\ pc' = "sign" /\ pcSince' = now
  /\ UNCHANGED <<envVars, proc, chain, finalized, watcherVars, confSubs, tryCount, reports,
                 blockhash, lastValidBlockHeight, slotSent, slotLanded, signature,
                 txStart, txSendAttempts, txEnd, sent>>

\* the fee request rejected with e, inside the inner try
FeeFetchFailOf(e) ==
  /\ proc = "running" /\ pc = "fee"
  /\ InnerCatchCustom(e)
  /\ UNCHANGED <<envVars, chain, finalized, watcherVars, confSubs, reports,
                 blockhash, lastValidBlockHeight, slotSent, slotLanded, txStart,
                 txSendAttempts, transaction, sent>>

FeeFetchFail == \E e \in Thrown : FeeFetchFailOf(e)

\* sendTransactionToCustomEndpoint rejected with e in the try of the resend
\* loop: its catch throws e on to the inner catch
SendFailCustomOf(e) ==
  /\ proc = "running" /\ pc = "send"
  /\ InnerCatchCustom(Rethrown(e))
  /\ UNCHANGED <<envVars, chain, finalized, watcherVars, confSubs, reports,
                 blockhash, lastValidBlockHeight, slotSent, slotLanded, txStart,
                 txSendAttempts, transaction, sent>>

SendFailCustom == \E e \in Thrown : SendFailCustomOf(e)

\* the retry timer won the race, e.message === "TxSendTimeout": log, count,
\* and the transaction is posted again from inside the catch
RaceTimeoutCustom ==
  /\ proc = "running" /\ pc = "race"
  /\ Elapsed(pcSince) >= TX_RETRY_INTERVAL
  /\ txSendAttempts <= MaxResends
  /\ plog' = <<"Tx not confirmed after", TX_RETRY_INTERVAL * txSendAttempts, "ms, resending">>
  /\ txSendAttempts' = txSendAttempts + 1
  /\ sent' = Append(sent, SignatureOf(Val(transaction).blockhash))
  /\ pc' = "resend" /\ pcSince' = now
  /\ UNCHANGED <<envVars, proc, chain, finalized, watcherVars, confSubs, tryCount, reports,
                 blockhash, lastValidBlockHeight, slotSent, slotLanded, signature,
                 txStart, transaction, txEnd>>

\* the post from inside the catch answered: `continue`, and the try of the
\* resend loop posts the transaction once more
ResendAnswered ==
  /\ proc = "running" /\ pc = "resend"
  /\ Submit
  /\ UNCHANGED <<envVars, proc, chain, finalized, watcherVars, confSubs, tryCount, plog, reports,
                 blockhash, lastValidBlockHeight, slotSent, slotLanded, signature,
                 txStart, txSendAttempts, transaction, txEnd>>

\* the post from inside the catch rejected with e: nothing of the resend loop
\* catches it
ResendFailOf(e) ==
  /\ proc = "running" /\ pc = "resend"
  /\ InnerCatchCustom(e)
  /\ UNCHANGED <<envVars, chain, finalized, watcherVars, confSubs, reports,
                 blockhash, lastValidBlockHeight, slotSent, slotLanded, txStart,
                 txSendAttempts, transaction, sent>>

ResendFail == \E e \in Thrown : ResendFailOf(e)

\* the confirmation promise of this round rejected with e: its wait is over,
\* and the catch of the resend loop throws on to the inner catch
RaceConfirmFailCustomOf(e) ==
  /\ proc = "running" /\ pc = "race"
  /\ confSubs' = confSubs - 1
  /\ InnerCatchCustom(Rethrown(e))
  /\ UNCHANGED <<envVars, chain, finalized, watcherVars, reports,
                 blockhash, lastValidBlockHeight, slotSent, slotLanded, txStart,
                 txSendAttempts, transaction, sent>>

RaceConfirmFailCustom == \E e \in Thrown : RaceConfirmFailCustomOf(e)

\* the variant up to the classification of the outcome, with watchBlockhash
\* whole and the position feed connected
NextCustom ==
  \/ Tick \/ NextBlockhash \/ SlotSubscribeOk \/ SlotNotification
  \/ LoopSleepDoneCustom \/ SpinDoneCustom \/ FeeFetched \/ FeeFetchFail
  \/ SignOk \/ SignThrow \/ SendOk \/ SendFailCustom \/ TxLands
  \/ RaceTimeoutCustom \/ ResendAnswered \/ ResendFail
  \/ RaceConfirmFailCustom \/ RaceConfirmed

SpecCustom == Init /\ [][NextCustom]_vars

\* ------------------------------------------------- the results file
\* `${n}` for a non-negative integer n: its decimal digits, as characters
DigitChar(d) == <<"0", "1", "2", "3", "4", "5", "6", "7", "8", "9">>[d + 1]

NumberToString(n) ==
  [i \in DOMAIN BigIntToString(n) |-> DigitChar(BigIntToString(n)[i])]

\* a line of the file is the sequence of its comma-separated fields, a field
\* the sequence of its characters (a name or a sig counts for one)
Headers == <<(<<"slot_sent">>), (<<"sequence_number">>), (<<"signature">>)>>

Data(slot, sequenceNumber, sig) ==
  <<NumberToString(slot), NumberToString(sequenceNumber), <<sig>>>>

SequenceNumbers == 1..2
SignatureStrings == {"5VERv8", "3AsdoA"}

\* a faulty appendToResultsCsv that writes the file anew at every call: the
\* layout of the results file (C39) must not survive it
appendToResultsCsvOverwrites(slot, sequenceNumber, sig) ==
  /\ Len(csvCalls) < MaxCalls
  /\ csvDirExists' = TRUE
  /\ csvFile' = Some(<<Headers, Data(slot, sequenceNumber, sig)>>)
  /\ csvCalls' = Append(csvCalls, <<slot, sequenceNumber, sig>>)
  /\ UNCHANGED <<sinceEpoch, ticks, budget, SKIP_VALIDATORS_APP, COMMITMENT_LEVEL,
                 proc, chain, finalized, watcherVars, probeVars>>

\* one call of appendToResultsCsv; it awaits nothing
appendToResultsCsv(slot, sequenceNumber, sig) ==
  /\ Len(csvCalls) < MaxCalls
  /\ csvDirExists' = TRUE
  /\ LET fileExists == csvFile # None
         data == Data(slot, sequenceNumber, sig)
     IN  IF ~fileExists
           THEN csvFile' = Some(<<Headers, data>>)
           ELSE csvFile' = Some(Append(Val(csvFile), data))
  /\ csvCalls' = Append(csvCalls, <<slot, sequenceNumber, sig>>)
  /\ UNCHANGED <<sinceEpoch, ticks, budget, SKIP_VALIDATORS_APP, COMMITMENT_LEVEL,
                 proc, chain, finalized, watcherVars, probeVars>>

AppendCall ==
  \E slot \in Slots, sequenceNumber \in SequenceNumbers, sig \in SignatureStrings :
    appendToResultsCsv(slot, sequenceNumber, sig)

\* a run of the results module alone, started with or without a results
\* directory in place
InitCsv ==
  \E dir \in BOOLEAN :
    InitLoops(Horizon, OneIteration, FALSE, "confirmed") /\ InitResults(dir)

SpecCsv == InitCsv /\ [][AppendCall]_vars
\* ------------------------------------------------- properties
\* the number a string of decimal digits denotes
RECURSIVE ParseDecimal(_)
ParseDecimal(s) ==
  IF s = <<>> THEN 0 ELSE 10 * ParseDecimal(SubSeq(s, 1, Len(s) - 1)) + s[Len(s)]

\* the payload most recently handed to axios.post
LastReport == reports[Len(reports)]

\* C1.  Freshness gating by age: a step into Build (the awaited signTransaction)
\* is a step of the wait-for-fresh loop, taken at a clock reading at which the
\* anchor is less than 10000 ms old and the position less than 50 ms old.
C1_FreshnessGatingByAge ==
  [][(pc # "sign" /\ pc' = "sign") =>
       /\ pc \in {"loopSleep", "spin"}
       /\ Elapsed(gBlockhash.updated_at) < 10000
       /\ Elapsed(gSlotSent.updated_at) < 50]_vars

\* the gate was left, after the clock had advanced, on an anchor that had aged
C1_Witness ==
  /\ pc = "sign" /\ pcSince = now /\ ticks > 0
  /\ blockhash # None /\ slotSent # None
  /\ gBlockhash.value = blockhash /\ gBlockhash.updated_at > now

\* C2.  Freshness requires presence: whenever the loop has left Await-fresh, the
\* anchor value and the position value it snapshotted are present.
C2_FreshnessRequiresPresence ==
  pc = "sign" => (blockhash # None /\ slotSent # None)

\* C3.  Pairing atomicity: in every state another loop can observe, each store
\* has a value exactly when its timestamp is not the literal 0, and a present
\* anchor carries the height and the timestamp of the fetch that wrote it.
C3_PairingAtomicity ==
  /\ (gBlockhash.value # None) <=> (gBlockhash.updated_at # EPOCH)
  /\ (gSlotSent.value # None) <=> (gSlotSent.updated_at # EPOCH)
  /\ gBlockhash.value # None =>
       gBlockhash.lastValidBlockHeight = HeightOf(Val(gBlockhash.value))
  /\ (gBlockhash.value # None /\ bhPc = "sleep") =>
       Min(gBlockhash.updated_at, BLOCKHASH_POLL_SLEEP) = bhSince

\* an anchor written some time ago next to a position that was invalidated
C3_Witness ==
  /\ gBlockhash.value # None /\ gBlockhash.updated_at > now
  /\ gSlotSent.value = None /\ attemptsSlot > 0

\* C4.  No negative or landing-less reports: every payload posted carries a
\* landing slot not below its sent slot; a payload is posted only with both
\* slots present; and an iteration whose landing slot is below its sent slot
\* has been abandoned with the discard logged.
C4_NoNegativeOrLandinglessReports ==
  /\ \A i \in DOMAIN reports :
       ParseDecimal(reports[i].slot_landed) >= ParseDecimal(reports[i].slot_sent)
  /\ pc = "post" =>
       /\ slotLanded # None /\ slotSent # None
       /\ ParseDecimal(LastReport.slot_landed) = Val(slotLanded)
       /\ ParseDecimal(LastReport.slot_sent) = Val(slotSent)
  /\ (slotLanded # None /\ slotSent # None /\ Val(slotLanded) < Val(slotSent)) =>
       /\ pc = "loopSleep"
       /\ plog = <<"ERROR: Slot", Val(slotLanded), "<", Val(slotSent), ". Not sending to VA.">>

\* a landing slot below the sent slot was looked up and nothing was posted
C4_Witness ==
  /\ pc = "loopSleep" /\ reports = <<>>
  /\ slotLanded # None /\ slotSent # None /\ Val(slotLanded) < Val(slotSent)

\* C5.  Idempotent resend: every submission of an iteration carries the
\* transaction whose signature was taken at signing, that signature is the one
\* of the transaction built from the snapshot, and the payload posted after any
\* number of resends carries it.
C5_IdempotentResend ==
  /\ \A i \in DOMAIN sent : sent[i] = Val(signature)
  /\ sent # <<>> => Val(signature) = SignatureOf(blockhash)
  /\ pc = "post" =>
       /\ Len(sent) = txSendAttempts
       /\ LastReport.signature = sent[1]

\* a payload was posted after the transaction had been sent more than once
C5_Witness ==
  /\ pc = "post" /\ Len(sent) >= 2
  /\ LastReport.signature = SignatureOf(blockhash)

\* C6.  Anchor fatal ceiling: the failure counter never passes the ceiling, the
\* process has exited once it stands at the ceiling, it has not exited below
\* the ceiling (unless the position watcher hit its own), and a stored anchor
\* means the counter is back at 0.
C6_AnchorFatalCeiling ==
  /\ attemptsBlockhash <= MAX_BLOCKHASH_FETCH_ATTEMPTS
  /\ attemptsBlockhash = MAX_BLOCKHASH_FETCH_ATTEMPTS => proc = "exit0"
  /\ (attemptsBlockhash < MAX_BLOCKHASH_FETCH_ATTEMPTS
        /\ attemptsSlot < MAX_SLOT_FETCH_ATTEMPTS) => proc = "running"
  /\ gBlockhash.value # None => attemptsBlockhash = 0

\* the process exited on consecutive failures that followed a successful fetch
C6_Witness ==
  /\ proc = "exit0" /\ attemptsBlockhash = MAX_BLOCKHASH_FETCH_ATTEMPTS
  /\ attemptsSlot = 0
  /\ gBlockhash.value = None /\ gBlockhash.lastValidBlockHeight # 0

C9_ResendOnTimeout ==
  [][/\ (pc = "race" /\ pc' = "send") =>
          /\ sent' = Append(sent, Val(signature))
          /\ plog' = <<"Tx not confirmed after", 2000 * Len(sent), "ms, resending">>
          /\ txSendAttempts' = Len(sent) + 1
          /\ signature' = signature /\ txStart' = txStart /\ reports' = reports
          /\ pcSince' = now
     /\ (pc = "send" /\ pc' = "race") => (pcSince' = now /\ sent' = sent)
     /\ (pc = "race" /\ pc' = "settle") => (Len(sent) = txSendAttempts /\ sent' = sent)
     /\ (pc = "settle" /\ pc' # "settle" /\ signature # Some(FAKE_SIGNATURE)) =>
          (pc' = "lookup" /\ sent' = sent)]_vars

\* the timer won the first race, the confirmation the second, and the lookup
\* is under way after exactly two submissions
C9_Witness ==
  /\ pc = "lookup" /\ Len(sent) = 2 /\ txSendAttempts = 2
  /\ Val(txStart) - Val(txEnd) >= TX_RETRY_INTERVAL

\* C10.  Landing-not-found: when the lookup answers null nothing is posted,
\* tryCount stays as it was, the process keeps running and the loop is back at
\* its top.
C10_LandingNotFound ==
  [][(pc = "lookup" /\ plog' = <<"ERROR: tx is not found on RPC within", SLEEP_MS_RPC, "ms. Not sending to VA.">>) =>
       /\ pc' = "loopSleep"
       /\ reports' = reports /\ tryCount' = tryCount
       /\ proc' = "running"]_vars

\* the lookup answered null for a transaction that had landed, and nothing
\* was posted
C10_Witness ==
  /\ pc = "loopSleep" /\ plog = <<"ERROR: tx is not found on RPC within", SLEEP_MS_RPC, "ms. Not sending to VA.">>
  /\ signature # None /\ chain[Val(signature)] # 0
  /\ reports = <<>>

\* ------------------------------------------------------------------ C11
\* C11 (reporter circuit breaker): a reporter call that fails adds one to the
\* count of consecutive failures, and pingThing re-throws exactly when that
\* makes three: the process is then gone, watchers included.  After one or two
\* failures the loop goes on, and a reporter call that succeeds puts the count
\* back to 0.
C11_ReporterCircuitBreaker ==
  /\ [](proc = "rejected" => tryCount = MAX_TRIES /\ Len(reports) >= MAX_TRIES)
  /\ [](proc = "running" => tryCount < MAX_TRIES)
  /\ [][pc = "post" =>
          /\ plog' = <<"ERROR">> =>
               /\ tryCount' = tryCount + 1
               /\ IF tryCount = MAX_TRIES - 1
                    THEN proc' = "rejected"
                    ELSE proc' = "running" /\ pc' = "loopSleep"
          /\ (pc' = "loopSleep" /\ plog' = plog) =>
               tryCount' = 0 /\ proc' = "running"]_vars

\* the reporter failed in three iterations in a row and pingThing threw
C11_Witness ==
  /\ proc = "rejected" /\ pc = "post" /\ tryCount = MAX_TRIES
  /\ Len(reports) = MAX_TRIES
  /\ plog = <<"ERROR">>

\* ------------------------------------------------------------------ C12
\* C12 (snapshot isolation): the anchor stamped into the transaction and the
\* position copied for the report are what the two stores hold at the
\* instant the freshness check passes.  Nothing that happens later in the
\* iteration changes them: every submit carries the signature of the
\* transaction stamped then, and the report carries the position copied then.
C12_SnapshotIsolation ==
  [][/\ (pc # "sign" /\ pc' = "sign") =>
          /\ transaction' = Some([blockhash |-> gBlockhash.value,
                                  lastValidBlockHeight |-> gBlockhash.lastValidBlockHeight])
          /\ blockhash' = gBlockhash.value
          /\ slotSent' = gSlotSent.value
     /\ pc \notin {"loopSleep", "spin"} =>
          UNCHANGED <<transaction, blockhash, lastValidBlockHeight, slotSent>>
     /\ sent' # sent /\ sent' # <<>> =>
          sent'[Len(sent')] = SignatureOf(Val(transaction).blockhash)
     /\ reports' # reports =>
          reports'[Len(reports')].slot_sent = BigIntToString(Val(slotSent))]_vars

\* a probe was reported after both stores had moved on from the values the
\* freshness check saw
C12_Witness ==
  /\ pc = "post" /\ reports # <<>>
  /\ gBlockhash.value # blockhash
  /\ gSlotSent.value # slotSent
  /\ LastReport.slot_sent = BigIntToString(Val(slotSent))
  /\ LastReport.signature = SignatureOf(blockhash)

\* ------------------------------------------------------------------ C13
\* C13 (at most one measurement per iteration, no signature reported twice):
\* two payloads handed to the reporter carry the same signature only if it is
\* the sentinel.
C13_NoSignatureReportedTwice ==
  \A i, j \in 1..Len(reports) :
    (i < j /\ reports[i].signature = reports[j].signature)
      => reports[i].signature = FAKE_SIGNATURE

\* ------------------------------------------------------------------ C14
\* C14 (only three fatal causes): the process ends only in a step that takes
\* pingThing's count of consecutive failures to MAX_TRIES, or watchBlockhash's
\* count to its ceiling, or watchSlotSent's count to its ceiling.  Every other
\* step, whatever failed in it, leaves all three loops running.
C14_OnlyThreeFatalCauses ==
  /\ [](proc = "rejected" => tryCount = MAX_TRIES)
  /\ [](proc = "exit0" => \/ attemptsBlockhash >= MAX_BLOCKHASH_FETCH_ATTEMPTS
                          \/ attemptsSlot >= MAX_SLOT_FETCH_ATTEMPTS)
  /\ [][proc' # proc =>
          /\ proc = "running"
          /\ \/ /\ proc' = "rejected"
                /\ tryCount' = tryCount + 1 /\ tryCount' = MAX_TRIES
             \/ /\ proc' = "exit0"
                /\ attemptsBlockhash' = attemptsBlockhash + 1
                /\ attemptsBlockhash' >= MAX_BLOCKHASH_FETCH_ATTEMPTS
             \/ /\ proc' = "exit0"
                /\ attemptsSlot' = attemptsSlot + 1
                /\ attemptsSlot' >= MAX_SLOT_FETCH_ATTEMPTS]_vars

\* pingThing threw at its third failure in a row, after each watcher had
\* absorbed a failure of its own below its ceiling
C14_Witness ==
  /\ proc = "rejected" /\ tryCount = MAX_TRIES
  /\ attemptsBlockhash > 0 /\ attemptsBlockhash < MAX_BLOCKHASH_FETCH_ATTEMPTS
  /\ attemptsSlot > 0 /\ attemptsSlot < MAX_SLOT_FETCH_ATTEMPTS

\* ------------------------------------------------------------------ C15
\* C15 (position watcher exhaustion): whenever watchSlotSent's count of
\* failures is at its ceiling or beyond, the process has ended, whichever
\* failures took it there.
C15_SlotExhaustionExits ==
  attemptsSlot >= MAX_SLOT_FETCH_ATTEMPTS => proc = "exit0"

C17_ConfirmationWaitCancelled ==
  /\ confSubs <= 1
  /\ pc # "race" => confSubs = 0

\* ------------------------------------------------------------------ C18
\* C18 (position subscription teardown): watchSlotSent has aborted the
\* subscription of the cycle it left, however it left it, by the time it
\* subscribes again: no subscription is open while it subscribes, exactly one
\* while it reads the feed, and never more than one.
C18_PositionSubscriptionTeardown ==
  /\ slotSubs \in {0, 1}
  /\ slotPc = "subscribe" => slotSubs = 0
  /\ slotPc = "feed" => slotSubs = 1

\* the feed is open again after a cycle that ended in an error and its back-off
C18_Witness ==
  /\ slotPc = "feed" /\ slotSubs = 1
  /\ attemptsSlot > 0
  /\ slotSince = SLOTS_SUBSCRIPTION_DELAY

\* ------------------------------------------------------------------ C19
\* C19 (position notification filter): a notification of type
\* "firstShredReceived" or "completed" writes (notification.slot, now) to the
\* store and puts the failure count back to 0; a notification of any other
\* type leaves the store invalidated (no value, timestamp 0) and adds exactly
\* one to the failure count.
C19_NotificationFilter ==
  [][\A type \in NotificationTypes, slot \in Slots :
       SlotNotificationOf(type, slot) =>
         IF type \in {"firstShredReceived", "completed"}
           THEN /\ gSlotSent' = [value |-> Some(slot), updated_at |-> now]
                /\ attemptsSlot' = 0
           ELSE /\ gSlotSent' = [value |-> None, updated_at |-> EPOCH]
                /\ attemptsSlot' = attemptsSlot + 1]_vars

\* a matching notification has written the store and put the count back to 0
\* after a failure had been counted (a back-off has been slept through)
C19_Witness ==
  /\ slotPc = "feed" /\ proc = "running"
  /\ gSlotSent.value # None /\ gSlotSent.updated_at = now
  /\ attemptsSlot = 0
  /\ slotSince = SLOTS_SUBSCRIPTION_DELAY

\* ------------------------------------------------------------------ C20
\* C20 (resubscribe cool-down): watchSlotSent opens a subscription only when
\* the store holds no value or its value was written at least 3000 ms ago.
\* (The age of the store is kept up to SLOT_MAX_AGE; an age that has reached
\* it counts as old enough.)
C20_ResubscribeCoolDown ==
  [][(slotPc = "subscribe" /\ slotPc' = "feed") =>
       \/ gSlotSent.value = None
       \/ Elapsed(gSlotSent.updated_at) >= RESUBSCRIBE_COOL_DOWN
       \/ Elapsed(gSlotSent.updated_at) = SLOT_MAX_AGE]_vars

\* ------------------------------------------------------------------ C21
\* the store holds a value that is no longer fresh
PositionStale ==
  gSlotSent.value # None /\ Elapsed(gSlotSent.updated_at) >= SLOT_MAX_AGE

\* C21 (resubscribe on silence): watchSlotSent does not go on for ever reading
\* a feed whose last value has gone stale: it leaves that subscription (and
\* opens a new one).
C21_ResubscribeOnSilence ==
  []<>~(proc = "running" /\ slotPc = "feed" /\ PositionStale)

\* ------------------------------------------------------------------ C22
\* C22 (error back-off): an error of subscribe or of the feed starts a sleep
\* of SLOTS_SUBSCRIPTION_DELAY at the reading it is caught at, nothing
\* restarts or shortens that sleep, and watchSlotSent subscribes again only
\* when all of it has passed.
C22_ErrorBackoff ==
  [][/\ SlotError => (slotPc' = "backoff" /\ slotSince' = now)
     /\ (slotPc = "backoff" /\ slotPc' = "backoff") => Elapsed(slotSince') >= Elapsed(slotSince)
     /\ (slotPc = "backoff" /\ slotPc' # "backoff") =>
          /\ Elapsed(slotSince) >= SLOTS_SUBSCRIPTION_DELAY
          /\ slotPc' = "subscribe"]_vars

\* the back-off after an error is over and watchSlotSent is subscribing again
C22_Witness ==
  /\ proc = "running" /\ slotPc = "subscribe" /\ slotSubs = 0
  /\ attemptsSlot > 0
  /\ slotSince = SLOTS_SUBSCRIPTION_DELAY

\* ------------------------------------------------------------------ C23
\* the errors that say the anchor is no longer valid
AnchorInvalid == {"BlockhashNotFound", "TransactionExpiredBlockheightExceededError"}

\* C23 (anchor-invalid abandons the attempt): when a send is rejected, or a
\* confirmation wait fails, with an anchor-invalid error, the resend loop is
\* left at once: the transaction is not submitted again.
C23_AnchorInvalidAbandons ==
  [][\A e \in AnchorInvalid :
       (SendFailOf(e) \/ RaceConfirmFailOf(e)) =>
         (sent' = sent /\ pc' \notin {"send", "race"})]_vars

C25_OtherInnerExceptionsVoid ==
  [][(SignThrowOf("Error") \/ SendFailOf("Error") \/ RaceConfirmFailOf("Error")) =>
       /\ pc' = "loopSleep" /\ plog' = <<"ERROR: ", "Error">>
       /\ tryCount' = tryCount /\ reports' = reports /\ sent' = sent]_vars

\* ------------------------------------------------- C26
\* C26: an attempt that ended with the expiry error carries the sentinel
\* signature; after the settle delay no lookup is made and a payload with that
\* signature and success = false goes to the reporter.
C26_ExpiredReportedAsFailure ==
  [][(SettleDone /\ signature = Some(FAKE_SIGNATURE) /\ ~SKIP_VALIDATORS_APP) =>
       /\ pc' = "post"
       /\ Len(reports') = Len(reports) + 1
       /\ reports'[Len(reports')].signature = FAKE_SIGNATURE
       /\ reports'[Len(reports')].success = FALSE]_vars

\* ------------------------------------------------- C27
\* C27: the blockhash and the lastValidBlockHeight stamped into a transaction
\* are those of one successful fetch: a blockhash h goes with the height the
\* cluster returned with h, never with nothing and never with another height.
C27_MatchedAnchorPair ==
  transaction # None =>
    \E h \in Hashes :
      Val(transaction) = [blockhash |-> Some(h), lastValidBlockHeight |-> HeightOf(h)]

\* ------------------------------------------------- C28
\* the report step is over: axios.post answered, or reporting is switched off
ReportCompleted ==
  PostOk \/ ((SettleDone \/ LookupOk) /\ SKIP_VALIDATORS_APP /\ pc' = "loopSleep")

\* C28: tryCount changes in two ways only: the outer catch adds one, and the
\* end of the report step sets it to 0.  Every exception that reaches the outer
\* catch adds one, every completed report resets, and the wait-for-fresh loop
\* and the void ends of an iteration leave the counter as it is.
C28_CounterFrame ==
  [][/\ tryCount' # tryCount =>
          \/ tryCount' = tryCount + 1 /\ plog' = <<"ERROR">>
          \/ tryCount' = 0 /\ ReportCompleted
     /\ (LookupThrow \/ PostFail) => tryCount' = tryCount + 1
     /\ ReportCompleted => tryCount' = 0
     /\ (LoopSleepDone \/ SpinDone \/ LookupNull
           \/ SignThrowOf("BlockhashNotFound") \/ SignThrowOf("Error"))
          => tryCount' = tryCount]_vars

\* a counted failure, and after it an iteration that ended void on a
\* blockhash-not-found error: the count is still there
C28_Witness ==
  /\ proc = "running" /\ pc = "loopSleep"
  /\ plog = <<"ERROR: Blockhash not found">>
  /\ tryCount = 1

\* ------------------------------------------------- C29
\* C29: a fetch is given up only when 5000 ms have passed without an answer,
\* and giving it up is one failure: the store is invalidated and the counter
\* goes up by one.  When the request of such a fetch answers later, the store,
\* the counter and the position of the loop stay as they are.
C29_AnchorFetchTimeout ==
  [][/\ BlockhashFetchTimeout =>
          /\ Elapsed(bhSince) >= BLOCKHASH_FETCH_TIMEOUT
          /\ gBlockhash'.value = None /\ gBlockhash'.updated_at = EPOCH
          /\ attemptsBlockhash' = attemptsBlockhash + 1
     /\ (lateFetch = "pending" /\ lateFetch' = "settled") =>
          UNCHANGED <<gBlockhash, attemptsBlockhash, bhPc, bhSince, proc>>]_vars

\* the late answer of a timed-out fetch has come while the loop sleeps: the
\* store is still invalidated and the failure still counted
C29_Witness ==
  /\ proc = "running" /\ lateFetch = "settled" /\ bhPc = "sleep"
  /\ gBlockhash.value = None /\ gBlockhash.updated_at = EPOCH
  /\ attemptsBlockhash = 1

\* ------------------------------------------------- C30
\* C30: no pass of the wait-for-fresh loop goes on to build a probe while the
\* last fetch of watchBlockhash that completed was a failure or a timeout.
C30_NoProbingOnFailedAnchor ==
  [][(pc # "sign" /\ pc' = "sign") => attemptsBlockhash = 0]_vars

\* ------------------------------------------------- C31
\* the moves of pingThing from one await to the next, in the order of the
\* steps of an iteration; "loopSleep" is the top of the loop
StepOrder ==
  { <<"loopSleep", "spin">>, <<"loopSleep", "sign">>, <<"spin", "sign">>,
    <<"sign", "send">>, <<"send", "race">>, <<"race", "send">>,
    <<"sign", "settle">>, <<"race", "settle">>,
    <<"settle", "lookup">>, <<"lookup", "post">>,
    <<"sign", "loopSleep">>, <<"settle", "loopSleep">>,
    <<"lookup", "loopSleep">>, <<"post", "loopSleep">> }

\* C31: pingThing moves through the steps of an iteration in their order and
\* goes back to the top of the loop only from a step that ends the iteration;
\* when an iteration starts, nothing of the one before is in flight: every
\* transaction it sent has landed and none of its confirmation waits is open.
C31_SequentialIterations ==
  [][/\ pc' # pc => <<pc, pc'>> \in StepOrder
     /\ (pc = "loopSleep" /\ pc' # "loopSleep") =>
          /\ \A i \in DOMAIN sent : chain[sent[i]] # 0
          /\ confSubs = 0
          /\ sent' = <<>> /\ signature' = None /\ slotLanded' = None]_vars

\* the iteration after a failed one has its transaction in flight
C31_Witness ==
  /\ proc = "running" /\ pc = "race" /\ tryCount = 1
  /\ sent # <<>> /\ chain[sent[1]] = 0

\* ------------------------------------------------- C32
\* C32: a step of pingThing leaves both stores and both watchers' counters as
\* they are; a step of watchBlockhash leaves the position store, the position
\* watcher's counter and tryCount as they are; a step of watchSlotSent leaves
\* the anchor store, the anchor watcher's counter and tryCount as they are.
\* The passing of time changes no value and no counter.
C32_SingleWriter ==
  [][/\ NextPing => UNCHANGED <<gBlockhash, gSlotSent, attemptsBlockhash, attemptsSlot>>
     /\ NextBlockhash => UNCHANGED <<gSlotSent, attemptsSlot, tryCount>>
     /\ NextSlot => UNCHANGED <<gBlockhash, attemptsBlockhash, tryCount>>
     /\ Tick =>
          /\ gBlockhash'.value = gBlockhash.value /\ gSlotSent'.value = gSlotSent.value
          /\ gBlockhash'.lastValidBlockHeight = gBlockhash.lastValidBlockHeight
          /\ UNCHANGED <<attemptsBlockhash, attemptsSlot, tryCount>>]_vars

\* a probe on its way with the anchor it snapshotted, after a failure of its
\* own, while the position watcher has invalidated its store and counted
C32_Witness ==
  /\ proc = "running" /\ pc = "settle" /\ tryCount = 1
  /\ gBlockhash.value # None /\ attemptsBlockhash = 0
  /\ gSlotSent.value = None /\ attemptsSlot = 1 /\ slotSent # None

\* ------------------------------------------------- C33
\* a notification of a type watchSlotSent stores is taken from the feed
MatchingNotification ==
  \E type \in {"firstShredReceived", "completed"} : SlotNotificationAtPoll(type)

\* C33: if the anchor is fetched again and again and notifications of a
\* stored type keep coming, among notifications of other types, pingThing
\* gets out of its wait-for-fresh loop (unless the process has ended).
C33_AwaitFreshProgress ==
  ([]<><<BlockhashFetchOk>>_vars /\ []<><<MatchingNotification>>_vars)
    => <>(pc = "sign" \/ proc # "running")

\* ------------------------------------------------- C34
\* C34: whatever COMMITMENT is set to, the confirmation wait is over only when
\* the transaction has reached that level, so the lookup that follows asks
\* for a transaction that has reached the level it asks at.
C34_CommitmentLevel ==
  pc \in {"settle", "lookup"} /\ Val(signature) # FAKE_SIGNATURE
    => Reached(Val(signature), COMMITMENT_LEVEL)

\* ------------------------------------------------- C35
\* C35: with SKIP_VALIDATORS_APP set, nothing is ever handed to axios.post and
\* pingThing never waits for an answer of the reporter; an iteration still
\* goes through the lookup and the sanity check, and one that passes them
\* ends with tryCount = 0 and without an error logged.
C35_SkipReportingFlag ==
  [][SKIP_VALIDATORS_APP =>
       /\ reports' = <<>> /\ pc' # "post"
       /\ LookupOk =>
            /\ pc' = "loopSleep" /\ proc' = "running"
            /\ IF JsLess(slotLanded', slotSent)
                 THEN tryCount' = tryCount /\ plog'[1] = "ERROR: Slot"
                 ELSE tryCount' = 0 /\ plog' = plog]_vars

\* with the flag set, an iteration has run to its end on the last clock
\* advance: the transaction was confirmed and looked up, nothing was posted
C35_Witness ==
  /\ SKIP_VALIDATORS_APP /\ proc = "running" /\ pc = "loopSleep"
  /\ signature # None /\ slotLanded # None /\ ~JsLess(slotLanded, slotSent)
  /\ plog[1] = "Confirmed tx" /\ tryCount = 0 /\ reports = <<>>
  /\ ticks = MaxTicks + 1

\* ------------------------------------------------ the custom-endpoint variant
\* C36: in the custom-endpoint variant, a block-height-exceeded error raised
\* during the confirmation race is classified as Expired: the inner handler
\* takes the expired branch (it logs the expiry and goes on to the settle
\* sleep) and substitutes the sentinel signature; the error is not treated as
\* an unclassified exception
C36_BlockHeightExceededIsExpired ==
  [][RaceConfirmFailCustomOf(SolanaError(SOLANA_ERROR__BLOCK_HEIGHT_EXCEEDED))
       => /\ signature' = Some(FAKE_SIGNATURE)
          /\ pc' = "settle"
          /\ plog' = <<"ERROR: Blockhash expired/block height exceeded. TX failure sent to VA.">>]_vars

\* C37: in the custom-endpoint variant, the anchor stamped into the
\* transaction is the one snapshotted when the freshness check passed: a write
\* or an invalidation by watchBlockhash during the fee fetch does not change
\* it, and no transaction is built with an absent anchor
C37_SnapshotAcrossFeeFetch ==
  [][FeeFetched => /\ Val(transaction').blockhash = blockhash
                   /\ Val(transaction').lastValidBlockHeight = Val(lastValidBlockHeight)
                   /\ Val(transaction').blockhash # None]_vars

\* C38: the position store reflects the latest notification.  It starts
\* absent; a notification of type firstShredReceived or completed leaves it
\* holding that notification's slot, a notification of any other type leaves
\* it absent; and no other step of the program (a subscription error, the
\* back-off, a re-subscription, the end of a stream, the other two loops, the
\* clock) changes the value it holds.  So at every suspension point the value
\* is present exactly if the notification processed last was of one of the
\* two types, and is that notification's slot
C38_PositionReflectsLatestNotification ==
  /\ gSlotSent.value = None
  /\ [][/\ \A type \in NotificationTypes, slot \in Slots :
             SlotNotificationOf(type, slot) =>
               gSlotSent'.value = (IF type \in {"firstShredReceived", "completed"}
                                     THEN Some(slot) ELSE None)
        /\ (~SlotNotification) => gSlotSent'.value = gSlotSent.value]_vars

\* a subscription failed after a position was written, the back-off is being
\* slept, and the store still holds the position
C38_Witness ==
  /\ slotPc = "backoff" /\ attemptsSlot > 0
  /\ gSlotSent.value # None

\* ------------------------------------------------------ the results file
\* C39: within one run, after n >= 1 calls of appendToResultsCsv the run's
\* file consists of the header line slot_sent,sequence_number,signature
\* exactly once, followed by exactly n data rows, the rows of the calls in
\* call order (so no later call modifies or removes an earlier row)
C39_ResultFileLayout ==
  Len(csvCalls) >= 1 =>
    /\ csvFile # None
    /\ Len(Val(csvFile)) = 1 + Len(csvCalls)
    /\ Val(csvFile)[1] = Headers
    /\ \A i \in 1..Len(csvCalls) :
         /\ Val(csvFile)[i + 1] = Data(csvCalls[i][1], csvCalls[i][2], csvCalls[i][3])
         /\ Val(csvFile)[i + 1] # Headers

\* the file after three calls, the last two with different rows
C39_Witness ==
  /\ Len(csvCalls) = 3
  /\ csvCalls[2] # csvCalls[3]
  /\ csvFile # None /\ Len(Val(csvFile)) = 4
====
